---- MODULE Spec2Model ----
(***************************************************************************)
(* Verification model of qiskit_nature.second_q.mappers.LogarithmicMapper. *)
(*                                                                         *)
(* Numbers are exact elements of Q(sqrt 2, i): the tuple <<a,b,c,d,q>>     *)
(* stands for (a + b*sqrt2 + c*i + d*sqrt2*i) / q with q > 0 and           *)
(* gcd(a,b,c,d,q) = 1, so that equal numbers are equal tuples.  This field *)
(* holds every entry of the spin-1/2 and spin-1 matrices.                  *)
(*                                                                         *)
(* A dense numpy matrix is [dim |-> d, e |-> [0..d-1 -> [0..d-1 -> Num]]]. *)
(* A SparsePauliOp is [nq |-> n, c |-> [Pauli labels of length n -> Num]], *)
(* the coefficient of every Pauli label (leftmost letter = highest qubit,  *)
(* as in qiskit labels).                                                   *)
(***************************************************************************)
EXTENDS Integers, Sequences, FiniteSets, TLC

VARIABLES padding, embed_upper, pc, call, ret, pending, partials

vars == <<padding, embed_upper, pc, call, ret, pending, partials>>

----------------------------------------------------------------------------
(* Exact arithmetic in Q(sqrt 2, i) *)

Abs(x) == IF x < 0 THEN -x ELSE x

RECURSIVE GCD(_, _)
GCD(a, b) == IF b = 0 THEN Abs(a) ELSE GCD(b, a % Abs(b))

Norm(t) ==
  LET g == GCD(GCD(GCD(t[1], t[2]), GCD(t[3], t[4])), t[5])
  IN  <<t[1] \div g, t[2] \div g, t[3] \div g, t[4] \div g, t[5] \div g>>

Int2Num(k) == <<k, 0, 0, 0, 1>>
Zero == Int2Num(0)
One == Int2Num(1)
ImagUnit == <<0, 0, 1, 0, 1>>

NAdd(x, y) ==
  IF x = Zero THEN y ELSE IF y = Zero THEN x ELSE
  Norm(<<x[1] * y[5] + y[1] * x[5], x[2] * y[5] + y[2] * x[5],
         x[3] * y[5] + y[3] * x[5], x[4] * y[5] + y[4] * x[5], x[5] * y[5]>>)

NMul(x, y) ==
  IF x = Zero \/ y = Zero THEN Zero ELSE
  IF x = One THEN y ELSE IF y = One THEN x ELSE
  Norm(<<x[1] * y[1] + 2 * x[2] * y[2] - x[3] * y[3] - 2 * x[4] * y[4],
         x[1] * y[2] + x[2] * y[1] - x[3] * y[4] - x[4] * y[3],
         x[1] * y[3] + x[3] * y[1] + 2 * x[2] * y[4] + 2 * x[4] * y[2],
         x[1] * y[4] + x[4] * y[1] + x[2] * y[3] + x[3] * y[2],
         x[5] * y[5]>>)

NNeg(x) == <<-x[1], -x[2], -x[3], -x[4], x[5]>>

Half(x) == NMul(x, <<1, 0, 0, 0, 2>>)

RECURSIVE Pow2(_)
Pow2(n) == IF n = 0 THEN 1 ELSE 2 * Pow2(n - 1)

\* sum of f[x] over the finite domain of f
RECURSIVE NSum(_, _)
NSum(f, S) ==
  IF S = {} THEN Zero
  ELSE LET x == CHOOSE y \in S : TRUE IN NAdd(f[x], NSum(f, S \ {x}))

----------------------------------------------------------------------------
(* Dense matrices (numpy arrays) *)

\* the function f with all its values computed
Eager(f) == f @@ <<>>

\* the r x c array with the entries f[i, j]
Mat(r, c, f) ==
  [shape |-> <<r, c>>,
   e |-> Eager([i \in 0 .. r - 1 |-> Eager([j \in 0 .. c - 1 |-> f[i, j]])])]

\* numpy.zeros((r, c))
Zeros(r, c) == Mat(r, c, [i \in 0 .. r - 1, j \in 0 .. c - 1 |-> Zero])

\* numpy.eye(d)
Eye(d) == Mat(d, d, [i \in 0 .. d - 1, j \in 0 .. d - 1 |-> IF i = j THEN One ELSE Zero])

\* scalar * matrix
MatScale(k, A) == Mat(A.shape[1], A.shape[2], [i \in 0 .. (A.shape[1]) - 1, j \in 0 .. (A.shape[2]) - 1 |-> NMul(A.e[i][j], k)])

\* numpy.block([[A, B], [C, D]])
Block(A, B, C, D) ==
  Mat(A.shape[1] + C.shape[1], A.shape[2] + B.shape[2], [i \in 0 .. (A.shape[1] + C.shape[1]) - 1, j \in 0 .. (A.shape[2] + B.shape[2]) - 1 |->
        IF i < A.shape[1]
        THEN IF j < A.shape[2] THEN A.e[i][j] ELSE B.e[i][j - A.shape[2]]
        ELSE IF j < C.shape[2] THEN C.e[i - A.shape[1]][j]
                               ELSE D.e[i - A.shape[1]][j - C.shape[2]]])

\* the matrix product A.B
MatMul(A, B) ==
  Mat(A.shape[1], B.shape[2], [i \in 0 .. (A.shape[1]) - 1, j \in 0 .. (B.shape[2]) - 1 |->
        NSum([k \in 0 .. A.shape[2] - 1 |-> NMul(A.e[i][k], B.e[k][j])], 0 .. A.shape[2] - 1)])

----------------------------------------------------------------------------
(* SparsePauliOp: [nq |-> n, c |-> f], f maps each Pauli label with a      *)
(* non-zero coefficient to that coefficient.                               *)

Letters == {"I", "X", "Y", "Z"}

Labels(n) == [1 .. n -> Letters]

\* entry (r, c) of the single-qubit Pauli matrix
Pauli1(l, r, c) ==
  CASE l = "I" -> IF r = c THEN One ELSE Zero
    [] l = "X" -> IF r # c THEN One ELSE Zero
    [] l = "Y" -> IF r = c THEN Zero ELSE IF r = 0 THEN NNeg(ImagUnit) ELSE ImagUnit
    [] l = "Z" -> IF r # c THEN Zero ELSE IF r = 0 THEN One ELSE NNeg(One)

Bit(x, k, n) == (x \div Pow2(n - k)) % 2

\* entry (r, c) of the matrix of the Pauli label s = s[1] (x) s[2] (x) ... (x) s[n]
RECURSIVE PauliEntryFrom(_, _, _, _)
PauliEntryFrom(s, r, c, k) ==
  IF k > Len(s) THEN One
  ELSE LET x == Pauli1(s[k], Bit(r, k, Len(s)), Bit(c, k, Len(s)))
       IN  IF x = Zero THEN Zero ELSE NMul(x, PauliEntryFrom(s, r, c, k + 1))

PauliEntry(s, r, c) == PauliEntryFrom(s, r, c, 1)

\* drop the labels whose coefficient is zero
Sparse(n, f) ==
  LET g == Eager(f)
  IN  [nq |-> n, c |-> Eager([s \in {t \in DOMAIN g : g[t] # Zero} |-> g[s]])]

Coeff(op, s) == IF s \in DOMAIN op.c THEN op.c[s] ELSE Zero

RECURSIVE Log2(_)
Log2(d) == IF d <= 1 THEN 0 ELSE 1 + Log2(d \div 2)

\* SparsePauliOp.from_operator(Operator(M)): coefficient of P is tr(P M) / 2^n
FromOperator(M) ==
  LET n == Log2(M.shape[1])
      idx == (0 .. M.shape[1] - 1) \X (0 .. M.shape[1] - 1)
      tr(s) == NSum([rc \in idx |-> LET p == PauliEntry(s, rc[1], rc[2])
                                    IN  IF p = Zero THEN Zero ELSE NMul(p, M.e[rc[2]][rc[1]])],
                    idx)
  IN  Sparse(n, [s \in Labels(n) |-> NMul(<<1, 0, 0, 0, M.shape[1]>>, tr(s))])

\* SparsePauliOp.to_matrix()
ToMatrix(op) ==
  Mat(Pow2(op.nq), Pow2(op.nq), [i \in 0 .. (Pow2(op.nq)) - 1, j \in 0 .. (Pow2(op.nq)) - 1 |->
        NSum([s \in DOMAIN op.c |-> LET p == PauliEntry(s, i, j)
                                    IN  IF p = Zero THEN Zero ELSE NMul(op.c[s], p)],
             DOMAIN op.c)])

\* product of two single-qubit Paulis: <<power of i, letter>>
Mul1(p, q) ==
  CASE p = "I" -> <<0, q>>
    [] q = "I" -> <<0, p>>
    [] p = q -> <<0, "I">>
    [] p = "X" /\ q = "Y" -> <<1, "Z">>
    [] p = "Y" /\ q = "Z" -> <<1, "X">>
    [] p = "Z" /\ q = "X" -> <<1, "Y">>
    [] p = "Y" /\ q = "X" -> <<3, "Z">>
    [] p = "Z" /\ q = "Y" -> <<3, "X">>
    [] p = "X" /\ q = "Z" -> <<3, "Y">>

RECURSIVE PhaseFrom(_, _, _)
PhaseFrom(s, t, k) ==
  IF k > Len(s) THEN 0 ELSE (Mul1(s[k], t[k])[1] + PhaseFrom(s, t, k + 1)) % 4

MulLabel(s, t) == Eager([k \in 1 .. Len(s) |-> Mul1(s[k], t[k])[2]])

IPow(k) == CASE k = 0 -> One [] k = 1 -> ImagUnit [] k = 2 -> NNeg(One) [] k = 3 -> NNeg(ImagUnit)

\* a @ b (SparsePauliOp.dot): the operator product a.b
Compose(a, b) ==
  LET pairs == (DOMAIN a.c) \X (DOMAIN b.c)
      out == {MulLabel(p[1], p[2]) : p \in pairs}
      term(p) == NMul(IPow(PhaseFrom(p[1], p[2], 1)), NMul(a.c[p[1]], b.c[p[2]]))
      sum(l) == LET from == {p \in pairs : MulLabel(p[1], p[2]) = l}
                IN  NSum(Eager([p \in from |-> term(p)]), from)
  IN  Sparse(a.nq, [l \in out |-> sum(l)])

\* a ^ b (SparsePauliOp.tensor): a (x) b, the labels of a to the left
Tensor(a, b) ==
  LET pairs == (DOMAIN a.c) \X (DOMAIN b.c)
  IN  [nq |-> a.nq + b.nq,
       c |-> Eager([l \in {p[1] \o p[2] : p \in pairs} |->
                      NMul(a.c[SubSeq(l, 1, a.nq)], b.c[SubSeq(l, a.nq + 1, a.nq + b.nq)])])]

\* coeff * op
Scale(k, op) == Sparse(op.nq, [s \in DOMAIN op.c |-> NMul(k, op.c[s])])

\* a + b
OpAdd(a, b) ==
  Sparse(a.nq, [s \in (DOMAIN a.c) \cup (DOMAIN b.c) |-> NAdd(Coeff(a, s), Coeff(b, s))])

----------------------------------------------------------------------------
(* The spin matrices SpinOp.x/y/z(spin).to_matrix(), spin = twoS / 2.      *)

\* sqrt of the radicands that occur for spin 1/2 and spin 1
SqrtNum(r) == CASE r = 0 -> Zero [] r = 1 -> One [] r = 2 -> <<0, 1, 0, 0, 1>>

SpinX(twoS) ==
  LET d == twoS + 1
  IN  Mat(d, d, [i \in 0 .. d - 1, j \in 0 .. d - 1 |->
        IF Abs(i - j) = 1
        THEN LET m == IF i > j THEN i ELSE j IN Half(SqrtNum(m * (d - m)))
        ELSE Zero])

SpinY(twoS) ==
  LET d == twoS + 1
  IN  Mat(d, d, [i \in 0 .. d - 1, j \in 0 .. d - 1 |->
        IF Abs(i - j) = 1
        THEN LET m == IF i > j THEN i ELSE j
             IN  NMul(NMul(ImagUnit, Int2Num(i - j)), Half(SqrtNum(m * (d - m))))
        ELSE Zero])

SpinZ(twoS) ==
  LET d == twoS + 1
  IN  Mat(d, d, [i \in 0 .. d - 1, j \in 0 .. d - 1 |-> IF i = j THEN Half(Int2Num(d - 2 * i - 1)) ELSE Zero])

----------------------------------------------------------------------------
(* LogarithmicMapper *)

Ok(v) == [kind |-> "ok", val |-> v]
Raise(e) == [kind |-> "raise", exc |-> e]

\* LogarithmicMapper(padding=p, embed_upper=b)
Mapper(p, b) == [_padding |-> p, _embed_upper |-> b]

\* mutant of EmbedMatrix: the two placements are exchanged
EmbedMatrix_swapped(self, matrix, num_qubits) ==
  LET full_dim == Pow2(num_qubits)
      subs_dim == matrix.shape[1]
      dim_diff == full_dim - subs_dim
  IN  IF dim_diff = 0 THEN Ok(matrix)
      ELSE IF dim_diff > 0
      THEN IF ~self._embed_upper
           THEN Ok(Block(matrix, Zeros(subs_dim, dim_diff),
                         Zeros(dim_diff, subs_dim), MatScale(self._padding, Eye(dim_diff))))
           ELSE Ok(Block(MatScale(self._padding, Eye(dim_diff)), Zeros(dim_diff, subs_dim),
                         Zeros(subs_dim, dim_diff), matrix))
      ELSE Raise("ValueError")

\* mutant of EmbedMatrix: full_dim = 2 << num_qubits
EmbedMatrix_shifted(self, matrix, num_qubits) ==
  LET full_dim == 2 * Pow2(num_qubits)
      subs_dim == matrix.shape[1]
      dim_diff == full_dim - subs_dim
  IN  IF dim_diff = 0 THEN Ok(matrix)
      ELSE IF dim_diff > 0
      THEN IF self._embed_upper
           THEN Ok(Block(matrix, Zeros(subs_dim, dim_diff),
                         Zeros(dim_diff, subs_dim), MatScale(self._padding, Eye(dim_diff))))
           ELSE Ok(Block(MatScale(self._padding, Eye(dim_diff)), Zeros(dim_diff, subs_dim),
                         Zeros(subs_dim, dim_diff), matrix))
      ELSE Raise("ValueError")

\* mutant of EmbedMatrix: a matrix that does not fit is returned as it is
EmbedMatrix_noraise(self, matrix, num_qubits) ==
  LET full_dim == Pow2(num_qubits)
      subs_dim == matrix.shape[1]
      dim_diff == full_dim - subs_dim
  IN  IF dim_diff <= 0 THEN Ok(matrix)
      ELSE IF self._embed_upper
           THEN Ok(Block(matrix, Zeros(subs_dim, dim_diff),
                         Zeros(dim_diff, subs_dim), MatScale(self._padding, Eye(dim_diff))))
           ELSE Ok(Block(MatScale(self._padding, Eye(dim_diff)), Zeros(dim_diff, subs_dim),
                         Zeros(subs_dim, dim_diff), matrix))

EmbedMatrix(self, matrix, num_qubits) ==
  LET full_dim == Pow2(num_qubits)
      subs_dim == matrix.shape[1]
      dim_diff == full_dim - subs_dim
  IN  IF dim_diff = 0 THEN Ok(matrix)
      ELSE IF dim_diff > 0
      THEN IF self._embed_upper
           THEN Ok(Block(matrix, Zeros(subs_dim, dim_diff),
                         Zeros(dim_diff, subs_dim), MatScale(self._padding, Eye(dim_diff))))
           ELSE Ok(Block(MatScale(self._padding, Eye(dim_diff)), Zeros(dim_diff, subs_dim),
                         Zeros(subs_dim, dim_diff), matrix))
      ELSE Raise("ValueError")

\* mutant of CeilLog2: int(np.log2(d)), the logarithm rounded down
CeilLog2_floor(d) == Log2(d)

\* int(np.ceil(np.log2(d))) for d >= 1
RECURSIVE CeilLog2(_)
CeilLog2(d) == IF d <= 1 THEN 0 ELSE 1 + CeilLog2((d + 1) \div 2)

LogarithmicEncoding(self, twoS) ==
  LET dspin == twoS + 1
      num_qubits == CeilLog2(dspin)
      spin_matrices == <<SpinX(twoS), SpinY(twoS), SpinZ(twoS), Eye(dspin)>>
      embedded_spin_matrices ==
        Eager([k \in 1 .. 4 |-> EmbedMatrix(self, spin_matrices[k], num_qubits)])
  IN  IF \E k \in 1 .. 4 : embedded_spin_matrices[k].kind = "raise"
      THEN Raise("ValueError")
      ELSE [kind |-> "ok",
            val |-> Eager([k \in 1 .. 4 |-> FromOperator(embedded_spin_matrices[k].val)]),
            dspin |-> dspin, num_qubits |-> num_qubits,
            embedded |-> Eager([k \in 1 .. 4 |-> embedded_spin_matrices[k].val])]

----------------------------------------------------------------------------
(* SpinOp: [spin |-> twoS, terms |-> <<[factors |-> <<<<axis, idx>>, ...>>, *)
(* coeff |-> Num], ...>>], the sequence produced by SpinOp.terms().         *)

Axes == {"X", "Y", "Z"}

Max(S) == CHOOSE x \in S : \A y \in S : y <= x

\* SpinOp.register_length when num_spins was not given: largest index + 1
RegisterLength(op) ==
  LET used == UNION {{op.terms[t].factors[k][2] : k \in DOMAIN op.terms[t].factors} :
                       t \in DOMAIN op.terms}
  IN  IF used = {} THEN 0 ELSE Max(used) + 1

\* SpinOp._index_order: insertion of factor f into the index-sorted prefix,
\* moving it left only past factors of strictly larger index
RECURSIVE InsertFactor(_, _)
InsertFactor(sorted, f) ==
  IF sorted = <<>> THEN <<f>>
  ELSE IF sorted[Len(sorted)][2] > f[2]
       THEN Append(InsertFactor(SubSeq(sorted, 1, Len(sorted) - 1), f), sorted[Len(sorted)])
       ELSE Append(sorted, f)

RECURSIVE SortFactors(_)
SortFactors(factors) ==
  IF factors = <<>> THEN <<>>
  ELSE InsertFactor(SortFactors(SubSeq(factors, 1, Len(factors) - 1)), factors[Len(factors)])

\* data[label] += coeff, the dict keeping the order of first insertion
RECURSIVE MergeTerms(_, _)
MergeTerms(data, rest) ==
  IF rest = <<>> THEN data
  ELSE LET t == rest[1]
           hit == {k \in DOMAIN data : data[k].factors = t.factors}
       IN  MergeTerms(IF hit = {} THEN Append(data, t)
                      ELSE LET k == CHOOSE k \in hit : TRUE
                           IN  [data EXCEPT ![k].coeff = NAdd(@, t.coeff)],
                      Tail(rest))

\* SpinOp.index_order()
IndexOrder(op) ==
  [spin |-> op.spin,
   terms |-> MergeTerms(<<>>, Eager([t \in DOMAIN op.terms |->
                                        [factors |-> SortFactors(op.terms[t].factors),
                                         coeff |-> op.terms[t].coeff]]))]

----------------------------------------------------------------------------
(* LogarithmicMapper._map_single *)

Paddings == {Int2Num(1), Int2Num(2)}

\* twice the spin: spin 1/2 and spin 1
TwoSpins == {1, 2}

Mappers == {Mapper(p, b) : p \in Paddings, b \in BOOLEAN}

\* self._logarithmic_encoding(spin), tabulated for every mapper and spin of the model
Encodings == [m \in Mappers |-> Eager([t \in TwoSpins |-> LogarithmicEncoding(m, t)])]

\* char_map = {"X": spinx, "Y": spiny, "Z": spinz}
CharMap(enc) ==
  Eager([a \in Axes |-> CASE a = "X" -> enc[1] [] a = "Y" -> enc[2] [] a = "Z" -> enc[3]])

\* mutant of MatStep: the new factor is multiplied from the left
MatStep_reversed(mat, op, idx, char_map) ==
  IF idx \in DOMAIN mat
  THEN [mat EXCEPT ![idx] = Compose(char_map[op], mat[idx])]
  ELSE Eager([i \in (DOMAIN mat) \cup {idx} |-> IF i = idx THEN char_map[op] ELSE mat[i]])

\* mat[idx] = mat[idx] @ char_map[op] if idx in mat else char_map[op]
MatStep(mat, op, idx, char_map) ==
  IF idx \in DOMAIN mat
  THEN [mat EXCEPT ![idx] = Compose(mat[idx], char_map[op])]
  ELSE Eager([i \in (DOMAIN mat) \cup {idx} |-> IF i = idx THEN char_map[op] ELSE mat[i]])

\* for op, idx in terms: ...   starting from the dict mat
RECURSIVE MatLoop(_, _, _)
MatLoop(mat, factors, char_map) ==
  IF factors = <<>> THEN mat
  ELSE MatLoop(MatStep(mat, factors[1][1], factors[1][2], char_map), Tail(factors), char_map)

EmptyMat == <<>>

\* [mat[i] if i in mat else identity for i in range(register_length)]
OperatorList(mat, identity, register_length) ==
  Eager([k \in 1 .. register_length |-> IF (k - 1) \in DOMAIN mat THEN mat[k - 1] ELSE identity])

Reversed(list) == Eager([k \in 1 .. Len(list) |-> list[Len(list) + 1 - k]])

\* functools.reduce without initial value: the left fold from the first element
RECURSIVE TensorFrom(_, _)
TensorFrom(accu, list) ==
  IF list = <<>> THEN accu ELSE TensorFrom(Tensor(accu, list[1]), Tail(list))

RECURSIVE AddFrom(_, _)
AddFrom(accu, list) ==
  IF list = <<>> THEN accu ELSE AddFrom(OpAdd(accu, list[1]), Tail(list))

\* mutant of TensorAll: the list is tensored without being reversed
TensorAll_unreversed(operatorlist) ==
  IF operatorlist = <<>> THEN Raise("TypeError")
  ELSE Ok(TensorFrom(operatorlist[1], Tail(operatorlist)))

\* reduce(operator.xor, reversed(operatorlist))
TensorAll(operatorlist) ==
  LET list == Reversed(operatorlist)
  IN  IF list = <<>> THEN Raise("TypeError") ELSE Ok(TensorFrom(list[1], Tail(list)))

\* mutant of SumOps: only the operator of the last term is returned
SumOps_last(qubit_ops_list) ==
  IF qubit_ops_list = <<>> THEN Raise("TypeError")
  ELSE Ok(qubit_ops_list[Len(qubit_ops_list)])

\* reduce(operator.add, qubit_ops_list)
SumOps(qubit_ops_list) ==
  IF qubit_ops_list = <<>> THEN Raise("TypeError")
  ELSE Ok(AddFrom(qubit_ops_list[1], Tail(qubit_ops_list)))

\* mutant of TermMats: the dict mat is created once, before the loop over the terms
RECURSIVE MatsCarried(_, _, _)
MatsCarried(mat, terms, char_map) ==
  IF terms = <<>> THEN <<>>
  ELSE LET m == MatLoop(mat, terms[1].factors, char_map)
       IN  <<m>> \o MatsCarried(m, Tail(terms), char_map)

TermMats_carried(terms, char_map) == MatsCarried(EmptyMat, terms, char_map)

\* one pass of the loop over the terms: the dict mat of every term
TermMats(terms, char_map) ==
  Eager([t \in DOMAIN terms |-> MatLoop(EmptyMat, terms[t].factors, char_map)])

\* coeff * reduce(operator.xor, reversed(operatorlist)) for one term
TermOp(mat, coeff, identity, register_length) ==
  LET tensored == TensorAll(OperatorList(mat, identity, register_length))
  IN  IF tensored.kind = "raise" THEN tensored ELSE Ok(Scale(coeff, tensored.val))

\* register_length: <<>> for None, <<L>> for an explicit value
MapSingle(self, second_q_op, register_length) ==
  LET rl == IF register_length = <<>> THEN RegisterLength(second_q_op) ELSE register_length[1]
      enc == Encodings[self][second_q_op.spin]
      ordered_op == IndexOrder(second_q_op)
      terms == ordered_op.terms
      mats == IF enc.kind = "raise" THEN <<>> ELSE TermMats(terms, CharMap(enc.val))
      ops == Eager([t \in DOMAIN mats |-> TermOp(mats[t], terms[t].coeff, enc.val[4], rl)])
      qubit_ops_list == Eager([t \in DOMAIN ops |-> ops[t].val])
      qubit_op == SumOps(qubit_ops_list)
  IN  IF enc.kind = "raise" THEN Raise(enc.exc)
      ELSE IF \E t \in DOMAIN ops : ops[t].kind = "raise" THEN Raise("TypeError")
      ELSE IF qubit_op.kind = "raise" THEN qubit_op
      ELSE [kind |-> "ok", val |-> qubit_op.val, register_length |-> rl,
            terms |-> terms, mats |-> mats,
            qubit_ops_list |-> qubit_ops_list]

----------------------------------------------------------------------------
(* Bounded inputs *)

MaxSite == 1
MaxFactors == 3
MaxTerms == 2
MaxDim == 4
MaxQubits == 2

Coeffs == <<One, <<0, 0, -1, 0, 2>>>>

Sites == 0 .. MaxSite

Factors == Axes \X Sites

AxisPattern == <<"X", "Z", "Y">>

\* every product of at most two factors, and the products X Z Y X ... of three
\* to MaxFactors factors, each at the first or the last site
FactorSeqs ==
  UNION {[1 .. n -> Factors] : n \in 0 .. 2}
  \cup UNION {{[k \in 1 .. n |-> <<AxisPattern[((k - 1) % 3) + 1], site[k]>>] :
                 site \in [1 .. n -> {0, MaxSite}]} : n \in 3 .. MaxFactors}

Term(factors, coeff) == [factors |-> factors, coeff |-> coeff]

\* the factors of the operators of several terms
MultiFactors == {<<"X", 0>>, <<"Z", 0>>, <<"Y", MaxSite>>}

\* the operator without terms, the operators of one term, and the operators of
\* two to MaxTerms terms of one factor each, whose coefficients alternate
\* between the two values of Coeffs
TermLists ==
  {<<>>}
  \cup {<<Term(f, Coeffs[c])>> : f \in FactorSeqs, c \in 1 .. 2}
  \cup UNION {{[k \in 1 .. n |-> Term(<<f[k]>>, Coeffs[((k + c) % 2) + 1])] :
                 f \in [1 .. n -> MultiFactors], c \in 0 .. 1} : n \in 2 .. MaxTerms}

SpinOps == {[spin |-> twoS, terms |-> ts] : twoS \in TwoSpins, ts \in TermLists}

\* register_length: None, 0, 1 or the number of sites
RegisterLengthArgs == {<<>>, <<0>>, <<1>>, <<MaxSite + 1>>}

\* d x d matrices with pairwise distinct entries base + d*i + j, and the spin matrices
TestMatrices ==
  {Mat(d, d, [i \in 0 .. d - 1, j \in 0 .. d - 1 |-> Int2Num(base + d * i + j)]) : d \in 1 .. MaxDim, base \in {3, 10}}
  \cup UNION {{SpinX(t), SpinY(t), SpinZ(t), Eye(t + 1)} : t \in TwoSpins}

----------------------------------------------------------------------------
(* The state machine: a mapper object and one call at a time *)

Self == Mapper(padding, embed_upper)

NoCall == [name |-> "none"]
NoRet == [kind |-> "none"]

Init ==
  /\ padding \in Paddings
  /\ embed_upper \in BOOLEAN
  /\ pc = "idle"
  /\ call = NoCall
  /\ ret = NoRet
  /\ pending = {}
  /\ partials = <<>>

CallEmbedMatrix(matrix, num_qubits) ==
  /\ pc = "idle"
  /\ pc' = "done"
  /\ call' = [name |-> "_embed_matrix", matrix |-> matrix, num_qubits |-> num_qubits]
  /\ ret' = EmbedMatrix(Self, matrix, num_qubits)
  /\ UNCHANGED <<padding, embed_upper, pending, partials>>

CallLogarithmicEncoding(twoS) ==
  /\ pc = "idle"
  /\ pc' = "done"
  /\ call' = [name |-> "_logarithmic_encoding", spin |-> twoS]
  /\ ret' = LogarithmicEncoding(Self, twoS)
  /\ UNCHANGED <<padding, embed_upper, pending, partials>>

CallMapSingle(second_q_op, register_length) ==
  /\ pc = "idle"
  /\ pc' = "done"
  /\ call' = [name |-> "_map_single", second_q_op |-> second_q_op,
              register_length |-> register_length]
  /\ ret' = MapSingle(Self, second_q_op, register_length)
  /\ UNCHANGED <<padding, embed_upper, pending, partials>>

Return ==
  /\ pc = "done"
  /\ pc' = "idle"
  /\ call' = NoCall
  /\ ret' = NoRet
  /\ UNCHANGED <<padding, embed_upper, pending, partials>>

Next ==
  \/ \E m \in TestMatrices, n \in 0 .. MaxQubits : CallEmbedMatrix(m, n)
  \/ \E t \in TwoSpins : CallLogarithmicEncoding(t)
  \/ \E op \in SpinOps, rl \in RegisterLengthArgs : CallMapSingle(op, rl)
  \/ Return

Spec == Init /\ [][Next]_vars

----------------------------------------------------------------------------
(* The per-term operators computed by independent workers and reduced by   *)
(* addition in any order (section 5 of the specification).                 *)

ParOps == {op \in SpinOps : Len(op.terms) >= 2}

EffectiveLength(second_q_op, register_length) ==
  IF register_length = <<>> THEN RegisterLength(second_q_op) ELSE register_length[1]

ParStart(second_q_op, register_length) ==
  /\ pc = "idle"
  /\ pc' = "par"
  /\ call' = [name |-> "parallel_map", second_q_op |-> second_q_op,
              register_length |-> register_length]
  /\ ret' = NoRet
  /\ pending' = DOMAIN IndexOrder(second_q_op).terms
  /\ partials' = <<>>
  /\ UNCHANGED <<padding, embed_upper>>

\* a worker computes the operator of term t
Worker(t) ==
  /\ pc = "par"
  /\ t \in pending
  /\ LET enc == Encodings[Self][call.second_q_op.spin].val
         term == IndexOrder(call.second_q_op).terms[t]
         res == TermOp(MatLoop(EmptyMat, term.factors, CharMap(enc)), term.coeff, enc[4],
                       EffectiveLength(call.second_q_op, call.register_length))
     IN  IF res.kind = "raise"
         THEN /\ pc' = "done"
              /\ ret' = res
              /\ pending' = {}
              /\ partials' = <<>>
         ELSE /\ pending' = pending \ {t}
              /\ partials' = Eager([k \in (DOMAIN partials) \cup {t} |->
                                      IF k = t THEN res.val ELSE partials[k]])
              /\ UNCHANGED <<pc, ret>>
  /\ UNCHANGED <<padding, embed_upper, call>>

\* two available partial results are added: partials[i] + partials[j]
Combine(i, j) ==
  /\ pc = "par"
  /\ i \in DOMAIN partials
  /\ j \in DOMAIN partials
  /\ i # j
  /\ partials' = Eager([k \in (DOMAIN partials) \ {j} |->
                          IF k = i THEN OpAdd(partials[i], partials[j]) ELSE partials[k]])
  /\ UNCHANGED <<padding, embed_upper, pc, call, ret, pending>>

Finish ==
  /\ pc = "par"
  /\ pending = {}
  /\ Cardinality(DOMAIN partials) = 1
  /\ pc' = "done"
  /\ ret' = Ok(partials[CHOOSE k \in DOMAIN partials : TRUE])
  /\ partials' = <<>>
  /\ UNCHANGED <<padding, embed_upper, call, pending>>

ParNext ==
  \/ \E op \in ParOps, rl \in {<<>>, <<0>>} : ParStart(op, rl)
  \/ \E t \in 1 .. MaxTerms : Worker(t)
  \/ \E i, j \in 1 .. MaxTerms : Combine(i, j)
  \/ Finish
  \/ Return

ParSpec == Init /\ [][ParNext]_vars

----------------------------------------------------------------------------
(* Properties *)

MapDone == pc = "done" /\ call.name = "_map_single"
EmbedDone == pc = "done" /\ call.name = "_embed_matrix"
EncodingDone == pc = "done" /\ call.name = "_logarithmic_encoding"

\* the axes of the factors at site i, in the order of the term
SiteAxes(factors, i) ==
  LET at == SelectSeq(factors, LAMBDA f : f[2] = i)
  IN  [k \in 1 .. Len(at) |-> at[k][1]]

SitesOf(factors) == {factors[k][2] : k \in DOMAIN factors}

\* the matrix product M(a1) . M(a2) . ... . M(ak) for a non-empty sequence of
\* axes, M(a) the matrix of the encoded operator E(a)
RECURSIVE ProductMatrix(_, _)
ProductMatrix(axes, matrices) ==
  IF Len(axes) = 1 THEN matrices[axes[1]]
  ELSE MatMul(matrices[axes[1]], ProductMatrix(Tail(axes), matrices))

\* the matrices of the encoded operators of every mapper and spin of the model
EncodedMatrices ==
  [m \in Mappers |-> Eager([t \in TwoSpins |->
     IF Encodings[m][t].kind = "ok"
     THEN Eager([a \in Axes |-> ToMatrix(CharMap(Encodings[m][t].val)[a])])
     ELSE <<>>])]

EncodingOf(second_q_op) == Encodings[Self][second_q_op.spin]

\* C1: for every term of the input operator and every site that occurs in it,
\* the operator accumulated for the site is the ordered product
\* E(a1) @ E(a2) @ ... @ E(ak) of the encoded operators of the term's factors at
\* that site, in the order the factors have in the term as provided, also
\* after index_order() has rearranged the term.
C1_OrderedSiteProduct ==
  (MapDone /\ ret.kind = "ok") =>
    \A t \in DOMAIN call.second_q_op.terms :
      LET f == call.second_q_op.terms[t].factors
          matrices == EncodedMatrices[Self][call.second_q_op.spin]
      IN  \E k \in DOMAIN ret.terms :
            /\ SitesOf(ret.terms[k].factors) = SitesOf(f)
            /\ \A i \in SitesOf(f) : SiteAxes(ret.terms[k].factors, i) = SiteAxes(f, i)
            /\ DOMAIN ret.mats[k] = SitesOf(f)
            /\ \A i \in SitesOf(f) :
                 ToMatrix(ret.mats[k][i]) = ProductMatrix(SiteAxes(f, i), matrices)

\* the term [(X,0),(Z,0)] was mapped: its site-0 operator is E(X) @ E(Z), which
\* differs from E(Z) @ E(X)
C1_Witness ==
  /\ MapDone /\ ret.kind = "ok"
  /\ call.second_q_op.spin = 2
  /\ Len(call.second_q_op.terms) = 1
  /\ call.second_q_op.terms[1].factors = <<<<"X", 0>>, <<"Z", 0>>>>
  /\ LET matrices == EncodedMatrices[Self][call.second_q_op.spin]
     IN  /\ ToMatrix(ret.mats[1][0]) = ProductMatrix(<<"X", "Z">>, matrices)
         /\ ToMatrix(ret.mats[1][0]) # ProductMatrix(<<"Z", "X">>, matrices)

\* the operator O[i] of site i for the k-th processed term
SiteOp(k, i) ==
  IF i \in SitesOf(ret.terms[k].factors) THEN ret.mats[k][i]
  ELSE EncodingOf(call.second_q_op).val[4]

\* the part of the label l that belongs to site i when L sites of n qubits are
\* tensored with site L-1 leftmost
SiteLabel(l, i, L, n) == SubSeq(l, (L - 1 - i) * n + 1, (L - i) * n)

RECURSIVE CoeffProduct(_, _, _, _, _)
CoeffProduct(k, l, i, L, n) ==
  IF i = L THEN One
  ELSE NMul(Coeff(SiteOp(k, i), SiteLabel(l, i, L, n)), CoeffProduct(k, l, i + 1, L, n))

RECURSIVE SupportSize(_, _, _)
SupportSize(k, i, L) ==
  IF i = L THEN 1 ELSE Cardinality(DOMAIN SiteOp(k, i).c) * SupportSize(k, i + 1, L)

\* C2: the operator of every term is c * (O[L-1] (x) ... (x) O[0]) over exactly
\* L sites: O[i] is the accumulated operator of site i if the term has a factor
\* there and the encoded identity otherwise, site L-1 leftmost and site 0
\* rightmost.  (Coefficient by coefficient: the coefficient of every Pauli label
\* is c times the product of the coefficients of its site parts, and no label
\* of the tensor product is missing.)
C2_TensorOrder ==
  (MapDone /\ ret.kind = "ok") =>
    LET L == ret.register_length
        n == EncodingOf(call.second_q_op).num_qubits
    IN  /\ L >= 1
        /\ \A k \in DOMAIN ret.qubit_ops_list :
             LET q == ret.qubit_ops_list[k]
                 c == ret.terms[k].coeff
             IN  /\ q.nq = L * n
                 /\ \A l \in DOMAIN q.c : q.c[l] = NMul(c, CoeffProduct(k, l, 0, L, n))
                 /\ c # Zero => Cardinality(DOMAIN q.c) = SupportSize(k, 0, L)

\* a spin-1 term that touches only site 1 of a two-site register was mapped
\* with a coefficient other than 1 and a padded identity
C2_Witness ==
  /\ MapDone /\ ret.kind = "ok"
  /\ call.second_q_op.spin = 2
  /\ padding = Int2Num(2)
  /\ ret.register_length = 2
  /\ Len(ret.terms) = 1
  /\ ret.terms[1].coeff # One
  /\ SitesOf(ret.terms[1].factors) = {1}
  /\ ret.qubit_ops_list[1].nq = 4
  /\ ret.val = Scale(ret.terms[1].coeff,
                     Tensor(ret.mats[1][1], EncodingOf(call.second_q_op).val[4]))

Prefix(second_q_op, j) ==
  [spin |-> second_q_op.spin, terms |-> SubSeq(second_q_op.terms, 1, j)]

Suffix(second_q_op, j) ==
  [spin |-> second_q_op.spin,
   terms |-> SubSeq(second_q_op.terms, j + 1, Len(second_q_op.terms))]

\* C3: linearity: mapping the concatenation A ++ B of two non-empty term lists
\* over the same spin and register length gives the sum of mapping A and
\* mapping B; nothing accumulated for one term is carried into the next.
C3_Linearity ==
  (MapDone /\ ret.kind = "ok") =>
    /\ \A j \in 1 .. Len(call.second_q_op.terms) - 1 :
         LET A == MapSingle(Self, Prefix(call.second_q_op, j), <<ret.register_length>>)
             B == MapSingle(Self, Suffix(call.second_q_op, j), <<ret.register_length>>)
         IN  /\ A.kind = "ok"
             /\ B.kind = "ok"
             /\ ret.val = OpAdd(A.val, B.val)
    /\ \A k \in DOMAIN ret.mats : DOMAIN ret.mats[k] = SitesOf(ret.terms[k].factors)

\* two terms X_0 and Z_0 with different coefficients were mapped
C3_Witness ==
  /\ MapDone /\ ret.kind = "ok"
  /\ Len(call.second_q_op.terms) = 2
  /\ call.second_q_op.terms[1].factors = <<<<"X", 0>>>>
  /\ call.second_q_op.terms[2].factors = <<<<"Z", 0>>>>
  /\ call.second_q_op.terms[1].coeff # call.second_q_op.terms[2].coeff
  /\ Len(ret.qubit_ops_list) = 2
  /\ ret.val = OpAdd(ret.qubit_ops_list[1], ret.qubit_ops_list[2])

HasIndexOutOfRange ==
  \E t \in DOMAIN call.second_q_op.terms :
    \E i \in SitesOf(call.second_q_op.terms[t].factors) :
      i \notin 0 .. EffectiveLength(call.second_q_op, call.register_length) - 1

\* C4: a term with a factor whose site index lies outside [0, register_length)
\* makes the mapping fail with an index-out-of-range error and return no
\* operator.
C4_IndexOutOfRange ==
  (MapDone /\ HasIndexOutOfRange) =>
    (ret.kind = "raise" /\ ret.exc \in {"IndexOutOfRange", "IndexError"})

\* C5: mapping an operator without terms signals EmptyOperator or returns the
\* zero operator; it does not fail with an incidental error of the reduction.
C5_EmptyOperator ==
  (MapDone /\ call.second_q_op.terms = <<>>) =>
    \/ ret.kind = "raise" /\ ret.exc = "EmptyOperator"
    \/ ret.kind = "ok" /\ DOMAIN ret.val.c = {}

SubsDim == call.matrix.shape[1]
FullDim == Pow2(call.num_qubits)
DimDiff == FullDim - SubsDim

\* C6: for diff = 2^n - d > 0 the result is the 2^n x 2^n block-diagonal matrix
\* with M top-left and padding * I bottom-right if embed_upper, with
\* padding * I top-left and M bottom-right otherwise, and zeros in both
\* off-diagonal blocks.
C6_PaddingBlocks ==
  (EmbedDone /\ DimDiff > 0) =>
    /\ ret.kind = "ok"
    /\ ret.val.shape = <<FullDim, FullDim>>
    /\ \A i, j \in 0 .. FullDim - 1 :
         ret.val.e[i][j] =
           IF embed_upper
           THEN IF i < SubsDim /\ j < SubsDim THEN call.matrix.e[i][j]
                ELSE IF i >= SubsDim /\ j >= SubsDim /\ i = j THEN padding
                ELSE Zero
           ELSE IF i < DimDiff /\ j < DimDiff THEN IF i = j THEN padding ELSE Zero
                ELSE IF i >= DimDiff /\ j >= DimDiff
                     THEN call.matrix.e[i - DimDiff][j - DimDiff]
                ELSE Zero

\* a 3 x 3 matrix without zero entries was embedded into the lower right block
\* of a 4 x 4 matrix with padding 2
C6_Witness ==
  /\ EmbedDone /\ SubsDim = 3 /\ call.num_qubits = 2
  /\ ~embed_upper /\ padding = Int2Num(2)
  /\ \A i, j \in 0 .. 2 : call.matrix.e[i][j] # Zero
  /\ ret.kind = "ok"
  /\ ret.val.e[0][0] = Int2Num(2)
  /\ ret.val.e[3][3] = call.matrix.e[2][2]

\* C7: when d = 2^n the input matrix is returned unchanged, for every padding
\* and both values of embed_upper.
C7_NoOpEmbedding ==
  (EmbedDone /\ DimDiff = 0) => ret = Ok(call.matrix)

\* a 2 x 2 matrix was embedded on one qubit by a mapper with padding 2 that
\* embeds into the lower block
C7_Witness ==
  /\ EmbedDone /\ SubsDim = 2 /\ call.num_qubits = 1
  /\ ~embed_upper /\ padding = Int2Num(2)
  /\ ret.kind = "ok" /\ ret.val = call.matrix

\* C8: _logarithmic_encoding uses d = 2S+1 and n = ceil(log2 d), so that
\* 2^(n-1) < d <= 2^n; each of the four embeddings has size 2^n x 2^n and the
\* error branch of _embed_matrix is not reached.  The same holds of every
\* embedding of a d x d matrix on ceil(log2 d) qubits.
C8_Dimension ==
  /\ EncodingDone =>
       /\ ret.kind = "ok"
       /\ ret.dspin = call.spin + 1
       /\ ret.dspin <= Pow2(ret.num_qubits)
       /\ ret.num_qubits >= 1 => Pow2(ret.num_qubits - 1) < ret.dspin
       /\ \A k \in 1 .. 4 :
            /\ ret.embedded[k].shape = <<Pow2(ret.num_qubits), Pow2(ret.num_qubits)>>
            /\ ret.val[k].nq = ret.num_qubits
  /\ (EmbedDone /\ call.num_qubits = CeilLog2(SubsDim)) =>
       /\ ret.kind = "ok"
       /\ ret.val.shape = <<FullDim, FullDim>>
       /\ SubsDim <= FullDim
       /\ call.num_qubits >= 1 => Pow2(call.num_qubits - 1) < SubsDim

\* the spin-1 encoding was computed: d = 3 on n = 2 qubits, 4 x 4 matrices
C8_Witness ==
  /\ EncodingDone /\ call.spin = 2
  /\ ret.kind = "ok" /\ ret.dspin = 3 /\ ret.num_qubits = 2
  /\ ret.embedded[1].shape = <<4, 4>>

\* C9: when the matrix is too large for the qubit count (2^n - d < 0) the call
\* raises ValueError and returns no matrix, for every padding and both values
\* of embed_upper, and the mapper's padding and embed_upper are unchanged.
C9_InvalidDimension ==
  [][(pc = "idle" /\ pc' = "done" /\ call'.name = "_embed_matrix"
        /\ Pow2(call'.num_qubits) < call'.matrix.shape[1])
       => (ret' = Raise("ValueError") /\ padding' = padding /\ embed_upper' = embed_upper)]_vars

\* a 3 x 3 matrix was embedded on one qubit
C9_Witness ==
  /\ EmbedDone /\ SubsDim = 3 /\ call.num_qubits = 1
  /\ ret.kind = "raise" /\ ret.exc = "ValueError"

ParDone == pc = "done" /\ call.name = "parallel_map"

\* C10: the operator obtained by computing the per-term operators independently
\* and adding them in any order equals the operator of the sequential
\* left-to-right fold of _map_single (and fails exactly when it fails).
C10_ReductionOrder ==
  ParDone =>
    LET seq == MapSingle(Self, call.second_q_op, call.register_length)
    IN  /\ ret.kind = seq.kind
        /\ ret.kind = "ok" => ret.val = seq.val

\* two different per-term operators were computed and added
C10_Witness ==
  /\ ParDone /\ ret.kind = "ok"
  /\ LET seq == MapSingle(Self, call.second_q_op, call.register_length)
     IN  /\ Len(seq.qubit_ops_list) = 2
         /\ seq.qubit_ops_list[1] # seq.qubit_ops_list[2]
         /\ ret.val = seq.val

====
